---------------------------- MODULE Spec2Model ----------------------------
(***************************************************************************)
(* Model of blender_takehome/example_create_cube.py: the pydantic input    *)
(* model CreateCubeInput and the coroutine create_cube, run by a caller    *)
(* on one cooperative event loop against a host (bpy) whose behaviour is   *)
(* chosen nondeterministically.                                            *)
(*                                                                         *)
(* Strings are sequences of one-character strings.  Every number is a      *)
(* float: the constructor converts what it is given to float, and the      *)
(* caller's assignments assign float literals.  A float is modelled by the *)
(* integer it equals (the inputs drawn are integer-valued floats), and is  *)
(* printed the way Python prints such a float: digits, then ".0".          *)
(***************************************************************************)
EXTENDS Integers, Sequences, FiniteSets

\* Number of create_cube invocations the caller makes.
NumInvocations == 2

\* Field(min_length=1), line 29
MinLength == 1
\* Field(max_length=63), line 30
MaxLength == 63
\* Field(default=2.0), line 34
DefaultSize == 2
\* Field(gt=0.0), line 36
SizeGt == 0
\* Field(le=1000.0), line 37
SizeLe == 1000
\* Field(default=(0.0, 0.0, 0.0)), line 41
DefaultLocation == << 0, 0, 0 >>
\* limit = 10000.0, line 50
limit == 10000
\* invalid_chars, line 60
invalid_chars == << "/", "\\", ":", "*", "?", "\"", "<", ">", "|" >>

\* f-string head, line 108: Successfully created cube '
SuccessPrefix ==
    << "S", "u", "c", "c", "e", "s", "s", "f", "u", "l", "l", "y", " ", "c", "r", "e",
       "a", "t", "e", "d", " ", "c", "u", "b", "e", " ", "'" >>

\* f-string middle, lines 108-109: ' with size 
SuccessWithSize ==
    << "'", " ", "w", "i", "t", "h", " ", "s", "i", "z", "e", " " >>

\* f-string middle, line 109:  at location 
SuccessAtLocation ==
    << " ", "a", "t", " ", "l", "o", "c", "a", "t", "i", "o", "n", " " >>

\* line 113: Cube created but could not get reference to object
NoReferenceMessage ==
    << "C", "u", "b", "e", " ", "c", "r", "e", "a", "t", "e", "d", " ", "b", "u", "t",
       " ", "c", "o", "u", "l", "d", " ", "n", "o", "t", " ", "g", "e", "t", " ", "r",
       "e", "f", "e", "r", "e", "n", "c", "e", " ", "t", "o", " ", "o", "b", "j", "e",
       "c", "t" >>

\* lines 117-120: Error: Blender (bpy module) is not available. This tool must be run in a Blender environment.
UnavailableMessage ==
    << "E", "r", "r", "o", "r", ":", " ", "B", "l", "e", "n", "d", "e", "r", " ", "(",
       "b", "p", "y", " ", "m", "o", "d", "u", "l", "e", ")", " ", "i", "s", " ", "n",
       "o", "t", " ", "a", "v", "a", "i", "l", "a", "b", "l", "e", ".", " ", "T", "h",
       "i", "s", " ", "t", "o", "o", "l", " ", "m", "u", "s", "t", " ", "b", "e", " ",
       "r", "u", "n", " ", "i", "n", " ", "a", " ", "B", "l", "e", "n", "d", "e", "r",
       " ", "e", "n", "v", "i", "r", "o", "n", "m", "e", "n", "t", "." >>

\* f-string head, line 123: Error creating cube: 
ErrorPrefix ==
    << "E", "r", "r", "o", "r", " ", "c", "r", "e", "a", "t", "i", "n", "g", " ", "c",
       "u", "b", "e", ":", " " >>

\* Name the host gives a new cube primitive before any rename.
DefaultObjectName == << "C", "u", "b", "e" >>

-----------------------------------------------------------------------------
(* Strings *)

Range(s) == { s[k] : k \in 1..Len(s) }

DigitChars == << "0", "1", "2", "3", "4", "5", "6", "7", "8", "9" >>

RECURSIVE Digits(_)
Digits(n) ==
    IF n < 10 THEN << DigitChars[n + 1] >>
    ELSE Digits(n \div 10) \o << DigitChars[(n % 10) + 1] >>

\* str(x) of an integer-valued float x, as the f-strings of lines 108-109 print it
FloatStr(x) ==
    (IF x < 0 THEN << "-" >> ELSE << >>)
        \o Digits(IF x < 0 THEN -x ELSE x) \o << ".", "0" >>

\* str(v) of a tuple of three floats
TupleStr(v) ==
    << "(" >> \o FloatStr(v[1]) \o << ",", " " >> \o FloatStr(v[2])
        \o << ",", " " >> \o FloatStr(v[3]) \o << ")" >>

-----------------------------------------------------------------------------
(* CreateCubeInput: field constraints and validators *)

\* NameErrors without validate_name: reserved characters pass
NameErrorsNoCharCheck(v) ==
    IF Len(v) < MinLength THEN { [loc |-> "name", type |-> "string_too_short"] }
    ELSE IF Len(v) > MaxLength THEN { [loc |-> "name", type |-> "string_too_long"] }
    ELSE {}

\* name: min_length, max_length (lines 27-31), then validate_name (lines 55-63)
NameErrors(v) ==
    IF Len(v) < MinLength THEN { [loc |-> "name", type |-> "string_too_short"] }
    ELSE IF Len(v) > MaxLength THEN { [loc |-> "name", type |-> "string_too_long"] }
    ELSE IF \E k \in 1..Len(invalid_chars) : invalid_chars[k] \in Range(v)
         THEN { [loc |-> "name", type |-> "value_error"] }
    ELSE {}

\* SizeErrors with lt in place of le: the upper bound itself is refused
SizeErrorsLt(v) ==
    IF ~(v > SizeGt) THEN { [loc |-> "size", type |-> "greater_than"] }
    ELSE IF ~(v < SizeLe) THEN { [loc |-> "size", type |-> "less_than"] }
    ELSE {}

\* size: gt, le (lines 33-38)
SizeErrors(v) ==
    IF ~(v > SizeGt) THEN { [loc |-> "size", type |-> "greater_than"] }
    ELSE IF ~(v <= SizeLe) THEN { [loc |-> "size", type |-> "less_than_equal"] }
    ELSE {}

\* location: validate_location (lines 45-53)
LocationErrors(v) ==
    IF ~(\A k \in 1..3 : -limit <= v[k] /\ v[k] <= limit)
    THEN { [loc |-> "location", type |-> "value_error"] }
    ELSE {}

\* A keyword argument is << >> when the caller omits it and << v >> when given;
\* an omitted field takes its default, which is not validated.
ValidationErrors(name, sizeArg, locationArg) ==
    NameErrors(name)
        \cup (IF sizeArg = << >> THEN {} ELSE SizeErrors(sizeArg[1]))
        \cup (IF locationArg = << >> THEN {} ELSE LocationErrors(locationArg[1]))

\* The object CreateCubeInput(name=..., size=..., location=...) builds on success
MakeInput(name, sizeArg, locationArg) ==
    [ name     |-> name,
      size     |-> IF sizeArg = << >> THEN DefaultSize ELSE sizeArg[1],
      location |-> IF locationArg = << >> THEN DefaultLocation ELSE locationArg[1] ]

-----------------------------------------------------------------------------
(* State *)

VARIABLES
    input,      \* the request object the caller holds, or NoRequest
    attempt,    \* the last constructor call: its arguments and its errors
    pc,         \* per invocation: position in the body of create_cube
    arg,        \* per invocation: the request object bound to its parameter
    alias,      \* per invocation: its parameter is the object the caller holds
    cube,       \* per invocation: the local variable cube (line 100)
    outcome,    \* per invocation: pending, a returned string or a raised exception
    fault,      \* per invocation: the exception raised in its try block, if any
    calls,      \* per invocation: the calls it has made on the host
    objects,    \* the host's scene: the objects creation calls have made
    active      \* the host's active object: an index into objects, or None

vars ==
    << input, attempt, pc, arg, alias, cube, outcome, fault, calls, objects, active >>

callerVars == << input, attempt >>
frameVars == << arg, alias >>
runVars == << pc, cube, outcome, fault, calls, objects, active >>

Inv == 1..NumInvocations

NoRequest == [ absent |-> TRUE ]
NoAttempt == [ made |-> FALSE ]
None == 0

Pending == [ kind |-> "pending" ]
Returned(s) == [ kind |-> "returned", value |-> s ]
Raised(e) == [ kind |-> "raised", exc |-> e ]

NoFault == [ stage |-> "none" ]
Fault(stage, e) == [ stage |-> stage, exc |-> e ]

NoCalls == [ create |-> 0, read |-> 0, rename |-> 0 ]

-----------------------------------------------------------------------------
(* Exceptions the host can raise, and Python's class hierarchy for them *)

Exc(cls, msg) == [ cls |-> cls, msg |-> msg ]

\* The classes cls derives from, itself included
Mro(cls) ==
    CASE cls = "ModuleNotFoundError" ->
             { "ModuleNotFoundError", "ImportError", "Exception", "BaseException" }
      [] cls = "ImportError" -> { "ImportError", "Exception", "BaseException" }
      [] cls = "RuntimeError" -> { "RuntimeError", "Exception", "BaseException" }
      [] cls = "KeyboardInterrupt" -> { "KeyboardInterrupt", "BaseException" }

IsInstance(e, cls) == cls \in Mro(e.cls)

\* No module named 'bpy'
NoBpyText ==
    << "N", "o", " ", "m", "o", "d", "u", "l", "e", " ", "n", "a", "m", "e", "d", " ",
       "'", "b", "p", "y", "'" >>

\* context is incorrect
PollFailedText ==
    << "c", "o", "n", "t", "e", "x", "t", " ", "i", "s", " ", "i", "n", "c", "o", "r",
       "r", "e", "c", "t" >>

\* DLL load failed
DllText ==
    << "D", "L", "L", " ", "l", "o", "a", "d", " ", "f", "a", "i", "l", "e", "d" >>

\* What "import bpy" (line 89) can raise
ImportFailures ==
    { Exc("ModuleNotFoundError", NoBpyText),
      Exc("RuntimeError", PollFailedText),
      Exc("KeyboardInterrupt", << >>) }

\* What a call on the host (lines 93-96, 100, 104) can raise
CallFailures ==
    { Exc("ImportError", DllText),
      Exc("RuntimeError", PollFailedText),
      Exc("KeyboardInterrupt", << >>) }

-----------------------------------------------------------------------------
(* create_cube: the pieces of its body *)

\* SuccessMessage that leaves the size out
SuccessMessageNoSize(req) ==
    SuccessPrefix \o req.name \o SuccessAtLocation \o TupleStr(req.location)

\* The f-string of lines 107-110
SuccessMessage(req) ==
    SuccessPrefix \o req.name \o SuccessWithSize \o FloatStr(req.size)
        \o SuccessAtLocation \o TupleStr(req.location)

\* ReturnValue that reports success whether or not there is an object
ReturnValueAlwaysSuccess(c, req) == SuccessPrefix \o req.name \o SuccessWithSize
    \o FloatStr(req.size) \o SuccessAtLocation \o TupleStr(req.location)

\* if cube: ... else: ... (lines 103-113): what the body returns after the read
ReturnValue(c, req) ==
    IF c # None THEN SuccessMessage(req) ELSE NoReferenceMessage

\* Except with the broad clause first: "except Exception" shadows "except ImportError"
ExceptBroadFirst(e) ==
    IF IsInstance(e, "Exception") THEN Returned(ErrorPrefix \o e.msg)
    ELSE IF IsInstance(e, "ImportError") THEN Returned(UnavailableMessage)
    ELSE Raised(e)

\* Except without the broad clause: only ImportError is handled
ExceptImportOnly(e) ==
    IF IsInstance(e, "ImportError") THEN Returned(UnavailableMessage)
    ELSE Raised(e)

\* The except clauses, in their order (lines 115-123): how the invocation ends
\* when exception e is raised inside the try block
Except(e) ==
    IF IsInstance(e, "ImportError") THEN Returned(UnavailableMessage)
    ELSE IF IsInstance(e, "Exception") THEN Returned(ErrorPrefix \o e.msg)
    ELSE Raised(e)

\* SuspendsAt with an await between the creation call and the read
SuspendsAtAfterCreate(p) == p = "created"

\* The body holds no await (lines 86-123): at no position does the coroutine
\* hand control back to the event loop before it ends
SuspendsAt(p) == FALSE

\* The event loop can run a step of invocation i, or of the caller (i = None):
\* every other coroutine is not made yet, has not run its first statement, has
\* ended, or is suspended
LoopFree(i) ==
    \A j \in Inv \ {i} : pc[j] \in { "idle", "called", "done" } \/ SuspendsAt(pc[j])

\* LogCreate with the creation call made a second time
LogCreateTwice(c) == [ c EXCEPT !.create = @ + 2 ]

\* The one creation call of lines 93-96, as the invocation's call log records it
LogCreate(c) == [ c EXCEPT !.create = @ + 1 ]

\* The scene after primitive_cube_add(size, location) made an object for i
SceneAfterCreate(objs, req, i, activated) ==
    Append(objs, [ name      |-> DefaultObjectName,
                   size      |-> req.size,
                   location  |-> req.location,
                   by        |-> i,
                   activated |-> activated ])

\* SceneAfterExcept with a rollback: the handler deletes what i created
SceneAfterExceptRollback(objs, i) == SelectSeq(objs, LAMBDA o : o.by # i)

\* The scene after an exception left the try block (lines 115-123): no handler
\* touches the host
SceneAfterExcept(objs, i) == objs

-----------------------------------------------------------------------------
(* Inputs drawn by the caller *)

Rep(c, n) == [ k \in 1..n |-> c ]

NameBox == << "B", "o", "x" >>
NameSlash == << "a", "/", "b" >>
FarCorner == << -limit, 0, limit >>

\* Constructor calls of the caller that goes on to call create_cube: one that
\* validation accepts and one that it refuses
CallerArgs ==
    { [ name |-> NameBox, size |-> << SizeLe >>, location |-> << FarCorner >> ],
      [ name |-> NameSlash, size |-> << >>, location |-> << >> ] }

\* Constructor calls that probe every validation rule at and around its bound
ProbeNames ==
    { << >>, Rep("a", MinLength), NameBox, Rep("a", MaxLength - 1),
      Rep("a", MaxLength), Rep("a", MaxLength + 1),
      Rep("a", MaxLength - 1) \o << "|" >>, Rep("a", MaxLength) \o << "/" >> }
        \cup { << "a", invalid_chars[k], "b" >> : k \in 1..Len(invalid_chars) }

ProbeSizes ==
    { << >> } \cup { << v >> : v \in { -1, SizeGt, SizeGt + 1, DefaultSize,
                                       SizeLe - 1, SizeLe, SizeLe + 1 } }

ProbeCoords == { -limit - 1, -limit, 0, limit, limit + 1 }

ProbeLocations ==
    { << >> } \cup { << << x, y, z >> >> : x, y, z \in ProbeCoords }

ProbeArgs ==
    { [ name |-> n, size |-> s, location |-> l ] :
        n \in ProbeNames, s \in ProbeSizes, l \in ProbeLocations }

-----------------------------------------------------------------------------
(* The caller *)

\* x = CreateCubeInput(**a): lines 19-63.  On errors pydantic raises
\* ValidationError and the caller holds what it held; otherwise the caller holds
\* the new object, and a coroutine called with the old one keeps the old one.
ConstructWith(a) ==
    LET errs == ValidationErrors(a.name, a.size, a.location) IN
    /\ LoopFree(None)
    /\ attempt' = [ made |-> TRUE, args |-> a, errors |-> errs ]
    /\ input' = IF errs = {} THEN MakeInput(a.name, a.size, a.location) ELSE input
    /\ alias' = IF errs = {} THEN [ i \in Inv |-> FALSE ] ELSE alias
    /\ UNCHANGED << arg, runVars >>

Construct == \E a \in CallerArgs : ConstructWith(a)

\* The constructor call whose arguments were drawn at the start
Probe ==
    /\ ~attempt.made
    /\ attempt # NoAttempt
    /\ ConstructWith(attempt.args)

\* x.size = 0.0: the class sets neither frozen nor validate_assignment
\* (lines 19-43), so pydantic stores the value as given, neither validated nor
\* converted.  The value assigned is a float literal, the type the field holds
\* after construction; of the assignments a caller can make, this one is drawn.
\* The object is shared by reference: a coroutine called with it and not yet
\* ended reads the new value.
SetAttr ==
    /\ LoopFree(None)
    /\ input # NoRequest
    /\ input' = [ input EXCEPT !.size = 0 ]
    /\ arg' = [ i \in Inv |-> IF alias[i] THEN [ arg[i] EXCEPT !.size = 0 ] ELSE arg[i] ]
    /\ UNCHANGED << attempt, alias, runVars >>

-----------------------------------------------------------------------------
(* create_cube(input): lines 66-123, one action per host interaction *)

\* The invocation ends with outcome o
End(i, o) ==
    /\ outcome' = [ outcome EXCEPT ![i] = o ]
    /\ pc' = [ pc EXCEPT ![i] = "done" ]
    /\ alias' = [ alias EXCEPT ![i] = FALSE ]

\* An exception e, raised at the given stage, leaves the try block
Fail(i, stage, e) ==
    /\ End(i, Except(e))
    /\ fault' = [ fault EXCEPT ![i] = Fault(stage, e) ]
    /\ objects' = SceneAfterExcept(objects, i)

\* c = create_cube(x) (line 66): the call binds the parameter to the caller's
\* object and returns a coroutine; no statement of the body runs.
\* Invocations are numbered in the order the caller makes them.
Call(i) ==
    /\ pc[i] = "idle"
    /\ IF i = 1 THEN TRUE ELSE pc[i - 1] # "idle"
    /\ input # NoRequest
    /\ LoopFree(None)
    /\ arg' = [ arg EXCEPT ![i] = input ]
    /\ alias' = [ alias EXCEPT ![i] = TRUE ]
    /\ pc' = [ pc EXCEPT ![i] = "called" ]
    /\ UNCHANGED << callerVars, cube, outcome, fault, calls, objects, active >>

\* The coroutine's first resumption, by await or by the loop running its task:
\* "import bpy" (lines 86-89)
Import(i) ==
    /\ pc[i] = "called"
    /\ LoopFree(i)
    /\ \/ /\ pc' = [ pc EXCEPT ![i] = "imported" ]
          /\ UNCHANGED << outcome, fault, objects, alias >>
       \/ \E e \in ImportFailures : Fail(i, "import", e)
    /\ UNCHANGED << callerVars, arg, cube, calls, active >>

\* bpy.ops.mesh.primitive_cube_add(size=..., location=...) (lines 93-96).
\* The host makes the object and decides what its active object is then:
\* the new object, nothing, or what it was before.
Create(i) ==
    /\ pc[i] = "imported"
    /\ LoopFree(i)
    /\ calls' = [ calls EXCEPT ![i] = LogCreate(@) ]
    /\ \/ \E mode \in { "new", "none", "stale" } :
            /\ objects' = SceneAfterCreate(objects, arg[i], i, mode = "new")
            /\ active' = CASE mode = "new" -> Len(objects) + 1
                           [] mode = "none" -> None
                           [] mode = "stale" -> active
            /\ pc' = [ pc EXCEPT ![i] = "created" ]
            /\ UNCHANGED << outcome, fault, alias >>
       \/ /\ \E e \in CallFailures : Fail(i, "create", e)
          /\ UNCHANGED active
    /\ UNCHANGED << callerVars, arg, cube >>

\* cube = bpy.context.active_object (line 100)
ReadActive(i) ==
    /\ pc[i] = "created"
    /\ LoopFree(i)
    /\ calls' = [ calls EXCEPT ![i].read = @ + 1 ]
    /\ \/ /\ cube' = [ cube EXCEPT ![i] = active ]
          /\ pc' = [ pc EXCEPT ![i] = "read" ]
          /\ UNCHANGED << outcome, fault, objects, alias >>
       \/ /\ \E e \in CallFailures : Fail(i, "read", e)
          /\ UNCHANGED cube
    /\ UNCHANGED << callerVars, arg, active >>

\* if cube: cube.name = input.name; return ... else: return ... (lines 103-113)
RenameAndReturn(i) ==
    /\ pc[i] = "read"
    /\ LoopFree(i)
    /\ IF cube[i] # None
       THEN /\ calls' = [ calls EXCEPT ![i].rename = @ + 1 ]
            /\ \/ /\ objects' = [ objects EXCEPT ![cube[i]].name = arg[i].name ]
                  /\ End(i, Returned(ReturnValue(cube[i], arg[i])))
                  /\ UNCHANGED fault
               \/ \E e \in CallFailures : Fail(i, "rename", e)
       ELSE /\ End(i, Returned(ReturnValue(cube[i], arg[i])))
            /\ UNCHANGED << fault, calls, objects >>
    /\ UNCHANGED << callerVars, arg, cube, active >>

-----------------------------------------------------------------------------
(* Specifications *)

Init ==
    /\ input = NoRequest
    /\ attempt = NoAttempt
    /\ pc = [ i \in Inv |-> "idle" ]
    /\ arg = [ i \in Inv |-> NoRequest ]
    /\ alias = [ i \in Inv |-> FALSE ]
    /\ cube = [ i \in Inv |-> None ]
    /\ outcome = [ i \in Inv |-> Pending ]
    /\ fault = [ i \in Inv |-> NoFault ]
    /\ calls = [ i \in Inv |-> NoCalls ]
    /\ objects = << >>
    /\ active = None

Next ==
    \/ Construct
    \/ SetAttr
    \/ \E i \in Inv : Call(i)
    \/ \E i \in Inv : Import(i)
    \/ \E i \in Inv : Create(i)
    \/ \E i \in Inv : ReadActive(i)
    \/ \E i \in Inv : RenameAndReturn(i)

Spec == Init /\ [][Next]_vars

\* The constructor alone, over the probing inputs
InitValidate ==
    /\ attempt \in { [ made |-> FALSE, args |-> a ] : a \in ProbeArgs }
    /\ input = NoRequest
    /\ pc = [ i \in Inv |-> "idle" ]
    /\ arg = [ i \in Inv |-> NoRequest ]
    /\ alias = [ i \in Inv |-> FALSE ]
    /\ cube = [ i \in Inv |-> None ]
    /\ outcome = [ i \in Inv |-> Pending ]
    /\ fault = [ i \in Inv |-> NoFault ]
    /\ calls = [ i \in Inv |-> NoCalls ]
    /\ objects = << >>
    /\ active = None

SpecValidate == InitValidate /\ [][Probe]_vars

-----------------------------------------------------------------------------
(* Vocabulary of the properties *)

Done(i) == pc[i] = "done"

\* needle occurs in hay as a contiguous run of characters
Contains(hay, needle) ==
    \E k \in 0..(Len(hay) - Len(needle)) :
        \A j \in 1..Len(needle) : hay[k + j] = needle[j]

StartsWith(s, prefix) ==
    /\ Len(prefix) <= Len(s)
    /\ \A j \in 1..Len(prefix) : s[j] = prefix[j]

ReturnedString(i) == outcome[i].kind = "returned"

ErrorWord == << "E", "r", "r", "o", "r" >>

IsSuccessString(s) == StartsWith(s, SuccessPrefix)

IsErrorString(s) == StartsWith(s, ErrorWord) /\ ~IsSuccessString(s)

\* The rules of the data model, stated on a request's fields
MeetsRules(r) ==
    /\ 1 <= Len(r.name) /\ Len(r.name) <= 63
    /\ Range(r.name) \cap { "/", "\\", ":", "*", "?", "\"", "<", ">", "|" } = {}
    /\ 0 < r.size /\ r.size <= 1000
    /\ \A k \in 1..3 : -10000 <= r.location[k] /\ r.location[k] <= 10000

\* The request a constructor call asks for, defaults filled in
Requested(a) == MakeInput(a.name, a.size, a.location)

\* The indices of the objects invocation i's creation call made
MadeBy(i) == { k \in 1..Len(objects) : objects[k].by = i }

-----------------------------------------------------------------------------
(* C1 *)

\* C1 as stated: whatever the host does, an invocation that has ended has
\* returned a string; no exception reaches the caller.
C1_NeverPropagates ==
    \A i \in Inv : Done(i) => ReturnedString(i)

\* C1, amended: an invocation that has ended has returned a string unless the
\* host raised a failure outside class Exception; such a failure, and only
\* such a failure, reaches the caller, unchanged.
C1_ReturnsUnlessNotException ==
    \A i \in Inv :
        Done(i) =>
            IF fault[i].stage # "none" /\ ~IsInstance(fault[i].exc, "Exception")
            THEN outcome[i] = Raised(fault[i].exc)
            ELSE ReturnedString(i)

\* A RuntimeError raised by the rename has been turned into a returned string.
C1_Witness ==
    \E i \in Inv :
        /\ Done(i)
        /\ fault[i].stage = "rename"
        /\ fault[i].exc.cls = "RuntimeError"
        /\ ReturnedString(i)

-----------------------------------------------------------------------------
(* C2 *)

\* C2: the constructor accepts a call exactly when the request it asks for
\* meets every rule of the data model, and then it makes that request;
\* otherwise it raises and makes nothing.
C2_ValidationAcceptsExactlyValid ==
    attempt.made =>
        /\ (attempt.errors = {}) <=> MeetsRules(Requested(attempt.args))
        /\ IF attempt.errors = {} THEN input = Requested(attempt.args)
                                  ELSE input = NoRequest

\* A 63-character name, size 1000 and a coordinate on each bound were accepted.
C2_Witness ==
    /\ attempt.made
    /\ attempt.errors = {}
    /\ Len(input.name) = 63
    /\ input.size = 1000
    /\ input.location = << -10000, 0, 10000 >>

-----------------------------------------------------------------------------
(* C3 *)

\* C3: when "import bpy" raises an ImportError, the invocation returns the
\* fixed unavailability string and has made no call on the host: no creation
\* call, no read, no rename, and no object of the scene is its doing.
C3_ImportFailureReturnsUnavailable ==
    \A i \in Inv :
        Done(i) /\ fault[i].stage = "import" /\ IsInstance(fault[i].exc, "ImportError")
            => /\ outcome[i] = Returned(UnavailableMessage)
               /\ calls[i] = NoCalls
               /\ MadeBy(i) = {}

\* An invocation ended on a failed import while the scene holds an object.
C3_Witness ==
    \E i \in Inv :
        /\ Done(i)
        /\ fault[i].stage = "import"
        /\ fault[i].exc.cls = "ModuleNotFoundError"
        /\ Len(objects) > 0

-----------------------------------------------------------------------------
(* C4 *)

\* C4 as stated, taken over the failures of class Exception: when the creation
\* call raises, the invocation returns an error string that contains the
\* failure's message, whatever the failure's type, ImportError included.
C4_CreationFailureMessageReported ==
    \A i \in Inv :
        Done(i) /\ fault[i].stage = "create" /\ IsInstance(fault[i].exc, "Exception")
            => /\ ReturnedString(i)
               /\ IsErrorString(outcome[i].value)
               /\ Contains(outcome[i].value, fault[i].exc.msg)

-----------------------------------------------------------------------------
(* C5 *)

\* What every step must satisfy for C5
C5_Action ==
    /\ \A i \in Inv :
        pc[i] = "read" /\ pc'[i] = "done" /\ cube[i] # None /\ fault'[i] = NoFault
            => /\ objects'[cube[i]].name = arg[i].name
               /\ outcome'[i].kind = "returned"
               /\ IsSuccessString(outcome'[i].value)
               /\ Contains(outcome'[i].value, arg[i].name)
               /\ Contains(outcome'[i].value, FloatStr(arg[i].size))
               /\ Contains(outcome'[i].value, TupleStr(arg[i].location))
    /\ \A i \in Inv :
        outcome'[i].kind = "returned" /\ IsSuccessString(outcome'[i].value)
            => /\ calls'[i] = [ create |-> 1, read |-> 1, rename |-> 1 ]
               /\ fault'[i] = NoFault
               /\ cube'[i] # None

\* C5: in the step that ends an invocation whose host made the primitive,
\* exposed an active object and accepted the rename, that object carries the
\* requested name and the string returned is the success string, holding the
\* request's name, size and location; and an invocation that has returned the
\* success string has made its rename and met no failure.
C5_RenamedThenSuccess == [][C5_Action]_vars

\* A request with no default left in it was served: the object the invocation
\* read carries the requested name and the invocation returned success.
C5_Witness ==
    \E i \in Inv :
        /\ Done(i)
        /\ ReturnedString(i)
        /\ IsSuccessString(outcome[i].value)
        /\ arg[i].name = NameBox
        /\ arg[i].size = 1000
        /\ objects[cube[i]].name = NameBox

-----------------------------------------------------------------------------
(* C6 *)

\* C6: an invocation whose read of the active object gave None returns the
\* fixed degraded-success string, has made no rename, and the object its
\* creation call made is still in the scene.
C6_NoActiveObjectDegraded ==
    \A i \in Inv :
        Done(i) /\ calls[i].read = 1 /\ fault[i] = NoFault /\ cube[i] = None
            => /\ outcome[i] = Returned(NoReferenceMessage)
               /\ calls[i].rename = 0
               /\ MadeBy(i) # {}

\* The degraded string was returned and the object made is in the scene under
\* the host's default name.
C6_Witness ==
    \E i \in Inv :
        /\ Done(i)
        /\ outcome[i] = Returned(NoReferenceMessage)
        /\ \E k \in MadeBy(i) : objects[k].name = DefaultObjectName

-----------------------------------------------------------------------------
(* C7 *)

\* C7 as stated: once constructed, the request is immutable; in every state
\* the request the caller holds, and every request an invocation was called
\* with, still meets the rules it was validated against.
C7_RequestAlwaysValid ==
    /\ input # NoRequest => MeetsRules(input)
    /\ \A i \in Inv : pc[i] # "idle" => MeetsRules(arg[i])

\* What every step must satisfy for C7, amended
C7_Action ==
    /\ pc' # pc =>
        /\ input' = input
        /\ \A i \in Inv : pc[i] = "idle" /\ pc'[i] # "idle" => arg'[i] = input
        /\ \A i \in Inv : pc[i] # "idle" => arg'[i] = arg[i]
    /\ attempt' # attempt /\ attempt'.errors = {} =>
        /\ input' = Requested(attempt'.args)
        /\ MeetsRules(input')

\* C7, amended: no step of create_cube changes the request, on any path, and
\* the request a constructor call returns holds the values asked for and meets
\* the rules.  (The class is not frozen: an assignment by the caller changes a
\* field afterwards, unvalidated, which is what refutes C7 as stated.)
C7_CreateCubeLeavesRequest == [][C7_Action]_vars

\* An invocation ran to its success string and the request the caller holds
\* is the one it was called with.
C7_Witness ==
    \E i \in Inv :
        /\ Done(i)
        /\ ReturnedString(i)
        /\ IsSuccessString(outcome[i].value)
        /\ input = arg[i]
        /\ MeetsRules(input)

-----------------------------------------------------------------------------
(* C8 *)

\* C8 as stated: when the rename has failed, the object the creation call made
\* is in the scene, under its default name unless another invocation renamed
\* it since, and the caller has received an error string.
C8_RenameFailureReported ==
    \A i \in Inv :
        Done(i) /\ fault[i].stage = "rename"
            => /\ MadeBy(i) # {}
               /\ \A k \in MadeBy(i) :
                    \/ objects[k].name = DefaultObjectName
                    \/ \E j \in Inv \ {i} :
                          cube[j] = k /\ calls[j].rename = 1 /\ fault[j] = NoFault
               /\ ReturnedString(i)
               /\ IsErrorString(outcome[i].value)

\* What every step must satisfy for C8, amended
C8_Action ==
    /\ Len(objects') >= Len(objects)
    /\ \A k \in 1..Len(objects) : objects'[k].by = objects[k].by
    /\ \A i \in Inv :
        pc[i] = "read" /\ fault'[i].stage = "rename"
            => /\ objects' = objects
               /\ MadeBy(i) # {}
               /\ calls'[i] = [ create |-> 1, read |-> 1, rename |-> 1 ]
               /\ IF IsInstance(fault'[i].exc, "Exception")
                  THEN /\ outcome'[i].kind = "returned"
                       /\ IsErrorString(outcome'[i].value)
                  ELSE outcome'[i] = Raised(fault'[i].exc)

\* C8, amended: no step of create_cube removes an object from the scene; the
\* step in which the rename fails leaves the scene as it was, the created
\* object in it, and ends the invocation with an error string, never the
\* success string, when the failure is of class Exception; a failure outside
\* class Exception reaches the caller instead.
C8_NoRollback == [][C8_Action]_vars

\* The rename failed with a RuntimeError: the caller has an error string and
\* the object made is in the scene under the default name.
C8_Witness ==
    \E i \in Inv :
        /\ Done(i)
        /\ fault[i].stage = "rename"
        /\ fault[i].exc.cls = "RuntimeError"
        /\ IsErrorString(outcome[i].value)
        /\ \E k \in MadeBy(i) : objects[k].name = DefaultObjectName

-----------------------------------------------------------------------------
(* C9 *)

Accesses(i) == calls[i].create + calls[i].read + calls[i].rename

RECURSIVE CreationCallsUpTo(_)
CreationCallsUpTo(n) ==
    IF n = 0 THEN 0 ELSE calls[n].create + CreationCallsUpTo(n - 1)

Started == { i \in Inv : pc[i] # "idle" }

\* What C9 says of creation calls: an invocation that has ended made exactly
\* one creation call if the import succeeded and none if it failed, no
\* invocation ever makes a second one, the host has received at most one
\* creation call per invocation started, and the scene holds no more objects
\* than creation calls were made.
CreationCallsBounded ==
    /\ \A i \in Inv :
        /\ calls[i].create <= 1
        /\ Done(i) => calls[i].create = IF fault[i].stage = "import" THEN 0 ELSE 1
    /\ CreationCallsUpTo(NumInvocations) <= Cardinality(Started)
    /\ Len(objects) <= CreationCallsUpTo(NumInvocations)

\* C9 as stated: the above, and each invocation accesses the host at most once.
C9_OneCreationOneAccess ==
    /\ CreationCallsBounded
    /\ \A i \in Inv : Accesses(i) <= 1

\* C9, amended: the above, and each invocation accesses the host at most three
\* times: one creation call, one read of the active object, one rename.
C9_OneCreationThreeAccesses ==
    /\ CreationCallsBounded
    /\ \A i \in Inv :
        /\ calls[i].read <= 1
        /\ calls[i].rename <= 1
        /\ Accesses(i) <= 3

\* One invocation ended on a failed creation call, made once and not again;
\* another made all three host accesses.
C9_Witness ==
    \E i, j \in Inv :
        /\ Done(i) /\ fault[i].stage = "create" /\ calls[i].create = 1
        /\ Done(j) /\ Accesses(j) = 3

-----------------------------------------------------------------------------
(* C10 *)

InBody(i) == pc[i] \in { "imported", "created", "read" }

\* C10: no two invocations are inside the body at once, and an invocation that
\* returned the success string, and whose own new object the host had made
\* active, renamed an object of its own creation call.
C10_RenamesOwnObject ==
    /\ \A i, j \in Inv : i # j => ~(InBody(i) /\ InBody(j))
    /\ \A i \in Inv :
        /\ Done(i)
        /\ ReturnedString(i)
        /\ IsSuccessString(outcome[i].value)
        /\ \A k \in MadeBy(i) : objects[k].activated
        => cube[i] \in MadeBy(i)

\* Two invocations returned success, each having renamed its own object.
C10_Witness ==
    \E i, j \in Inv :
        /\ i # j
        /\ Done(i) /\ ReturnedString(i) /\ IsSuccessString(outcome[i].value)
        /\ Done(j) /\ ReturnedString(j) /\ IsSuccessString(outcome[j].value)
        /\ cube[i] \in MadeBy(i)
        /\ cube[j] \in MadeBy(j)
        /\ objects[cube[i]].activated /\ objects[cube[j]].activated

=============================================================================
